---------------------------- MODULE Spec2Model ----------------------------
(***************************************************************************)
(* Model of kerndat.c: the kernel-capability cache (kdat), the probes that *)
(* fill it, the lazily probed mount descriptor table of                    *)
(* kerndat_get_fs_stat, and the two orchestrators kerndat_init and         *)
(* kerndat_init_rst.                                                       *)
(*                                                                         *)
(* The program is single threaded.  A probe runs to completion in one      *)
(* step; an orchestrator is a sequence of probe steps and `pc' holds its   *)
(* position.  What the kernel answers to a probe (an mmap that fails, the  *)
(* device id a stat reports, a sysctl vector ...) is the input of the      *)
(* step, drawn from a small set.                                           *)
(***************************************************************************)
EXTENDS Integers, Sequences, FiniteSets, TLC

VARIABLES
    kdat,       \* struct kerndat_s kdat
    kstat,      \* kstat[which].st of kerndat_get_fs_stat (the static table)
    opts,       \* the global options object; only track_mem is read here
    maps,       \* test mappings of the probes that are still mapped
    fds,        \* transient descriptors of the probes that are still open
    pc,         \* position of the running orchestrator, or idle
    call,       \* the entry point called last: what ran in it, what it returned
    last,       \* the probe that ran last: its input and its return value
    sys,        \* the system calls of the probe that ran last, in order
    aborted     \* BUG() has ended the process

vars == <<kdat, kstat, opts, maps, fds, pc, call, last, sys, aborted>>

---------------------------------------------------------------------------
(* Bounds of the model. *)

\* device ids the kernel reports are 0 .. MaxDev
MaxDev == 1

DevIds == 0 .. MaxDev

---------------------------------------------------------------------------
(* Program constants. *)

ENOSYS == 38
EFAULT == 14
KERNDAT_FS_STAT_DEVPTS == 0
KERNDAT_FS_STAT_DEVTMPFS == 1
KERNDAT_FS_STAT_MAX == 2
DEVPTS_SUPER_MAGIC == 7377
TMPFS_MAGIC == 16914836
\* bit 55 of a pagemap entry
PME_SOFT_DIRTY == 55
\* a null struct stat pointer
NULL == 0

(* u32 values are kept as <<high 16 bits, low 16 bits>>: 2^31 and above    *)
(* must stay exact.                                                        *)
U32(hi, lo) == <<hi, lo>>

(* The conversion (int)v of a u32 v: the same 32 bits read as two's        *)
(* complement.                                                             *)
IntOfU32(v) ==
    IF v[1] >= 32768 THEN (v[1] - 65536) * 65536 + v[2]
                     ELSE v[1] * 65536 + v[2]

(* The conversion of an int to bool, and of that bool back to int, of a    *)
(* function declared bool whose result is assigned to an int.             *)
IntOfBool(x) == IF x # 0 THEN 1 ELSE 0

\* kdat's initializer; the fields it does not name are zero
kdat_init_value ==
    [ shmem_dev       |-> 0,
      has_dirty_track |-> FALSE,
      zero_page_pfn   |-> 0,
      last_cap        |-> 0,
      tcp_max_wshare  |-> IntOfU32(U32(32, 0)),   \* 2U << 20
      tcp_max_rshare  |-> IntOfU32(U32(48, 0)),   \* 3U << 20
      has_memfd       |-> FALSE ]

\* the initializer of the static table kstat[]
kstat_init_value ==
    [ which \in 0 .. KERNDAT_FS_STAT_MAX - 1 |->
        [ magic  |-> IF which = KERNDAT_FS_STAT_DEVPTS
                       THEN DEVPTS_SUPER_MAGIC ELSE TMPFS_MAGIC,
          st_dev |-> 0 ] ]

---------------------------------------------------------------------------
(* The state a probe works on, and its primitive steps. *)

Enter == [ kdat |-> kdat, kstat |-> kstat, maps |-> maps, fds |-> fds,
           sys |-> << >>, ret |-> 0, aborted |-> FALSE ]

Sys(s, name) == [s EXCEPT !.sys = Append(@, name)]
Return(s, r) == [s EXCEPT !.ret = r]

MmapOk(s)   == [Sys(s, "mmap") EXCEPT !.maps = @ + 1]
MmapFail(s) == Sys(s, "mmap")
Munmap(s)   == [Sys(s, "munmap") EXCEPT !.maps = @ - 1]
OpenOk(s)   == [Sys(s, "open") EXCEPT !.fds = @ + 1]
OpenFail(s) == Sys(s, "open")
Close(s)    == [Sys(s, "close") EXCEPT !.fds = @ - 1]

\* BUG(): logs, raises SIGABRT; control does not come back
BUG(s) == [s EXCEPT !.aborted = TRUE]

---------------------------------------------------------------------------
(* kerndat_get_shmemdev.  e.mmap, e.stat: the call succeeds; e.st_dev: the *)
(* device id the stat of the map_files entry reports.                      *)

ShmemdevEnv ==
    { [mmap |-> FALSE, stat |-> FALSE, st_dev |-> 0],
      [mmap |-> TRUE,  stat |-> FALSE, st_dev |-> 0] }
    \cup { [mmap |-> TRUE, stat |-> TRUE, st_dev |-> d] : d \in DevIds }

\* faulty variant: shmem_dev is assigned from the stat buffer before the
\* result of stat is tested (an unfilled buffer reads as device 0)
kerndat_get_shmemdev_early(s, e) ==
    IF ~e.mmap
      THEN Return(MmapFail(s), -1)
      ELSE LET s1 == Sys(MmapOk(s), "stat")
               s2 == [s1 EXCEPT !.kdat.shmem_dev =
                                   IF e.stat THEN e.st_dev ELSE 0]
           IN IF ~e.stat
                THEN Return(Munmap(s2), -1)
                ELSE Return(Munmap(s2), 0)

kerndat_get_shmemdev(s, e) ==
    IF ~e.mmap
      THEN Return(MmapFail(s), -1)
      ELSE LET s1 == Sys(MmapOk(s), "stat") IN
           IF ~e.stat
             THEN Return(Munmap(s1), -1)
             ELSE Return([Munmap(s1) EXCEPT !.kdat.shmem_dev = e.st_dev], 0)

---------------------------------------------------------------------------
(* kerndat_get_fs_stat.  e.statfs, e.stat: the call succeeds; e.f_type:    *)
(* the magic statfs reports; e.st_dev: the device id stat reports.  The    *)
(* result is a pointer: NULL, or the address of kstat[which].st.           *)

\* 61267: the magic of a filesystem that is neither devpts nor tmpfs (ext4)
FsTypes == {DEVPTS_SUPER_MAGIC, TMPFS_MAGIC, 61267}

AddrOfSt(which) == which + 1

NoFsStatEnv == [statfs |-> FALSE, f_type |-> 0, stat |-> FALSE, st_dev |-> 0]

\* the answers a lookup of `which' can consume
FsStatEnv(which) ==
    IF which >= KERNDAT_FS_STAT_MAX THEN {NoFsStatEnv}
    ELSE {NoFsStatEnv}
         \cup { [statfs |-> TRUE, f_type |-> f, stat |-> FALSE, st_dev |-> 0] :
                    f \in FsTypes }
         \cup { [statfs |-> TRUE, f_type |-> kstat_init_value[which].magic,
                 stat |-> TRUE, st_dev |-> d] : d \in DevIds }

\* faulty variant: a failed stat leaves a record with a device id in the entry
kerndat_get_fs_stat_partial(s, which, e) ==
    IF which >= KERNDAT_FS_STAT_MAX
      THEN Return(s, NULL)
    ELSE IF s.kstat[which].st_dev # 0
      THEN Return(s, AddrOfSt(which))
    ELSE LET s1 == Sys(s, "statfs") IN
         IF ~e.statfs
           THEN Return(s1, NULL)
         ELSE IF e.f_type # s1.kstat[which].magic
           THEN Return(s1, NULL)
         ELSE LET s2 == Sys(s1, "stat") IN
              IF ~e.stat
                THEN Return([s2 EXCEPT !.kstat[which].st_dev = 1], NULL)
                ELSE Return([s2 EXCEPT !.kstat[which].st_dev = e.st_dev],
                            AddrOfSt(which))

\* faulty variant: the range check lets which = KERNDAT_FS_STAT_MAX through,
\* and the lookup goes on without an entry to consult
kerndat_get_fs_stat_offbyone(s, which, e) ==
    IF which > KERNDAT_FS_STAT_MAX
      THEN Return(s, NULL)
    ELSE IF which < KERNDAT_FS_STAT_MAX /\ s.kstat[which].st_dev # 0
      THEN Return(s, AddrOfSt(which))
    ELSE LET s1 == Sys(s, "statfs") IN
         IF ~e.statfs
           THEN Return(s1, NULL)
         ELSE IF e.f_type # s1.kstat[which].magic
           THEN Return(s1, NULL)
         ELSE LET s2 == Sys(s1, "stat") IN
              IF ~e.stat
                THEN Return(s2, NULL)
                ELSE Return([s2 EXCEPT !.kstat[which].st_dev = e.st_dev],
                            AddrOfSt(which))

\* faulty variant: a fetched record is stored in the first entry of the
\* table whatever the key
kerndat_get_fs_stat_firstentry(s, which, e) ==
    IF which >= KERNDAT_FS_STAT_MAX
      THEN Return(s, NULL)
    ELSE IF s.kstat[which].st_dev # 0
      THEN Return(s, AddrOfSt(which))
    ELSE LET s1 == Sys(s, "statfs") IN
         IF ~e.statfs
           THEN Return(s1, NULL)
         ELSE IF e.f_type # s1.kstat[which].magic
           THEN Return(s1, NULL)
         ELSE LET s2 == Sys(s1, "stat") IN
              IF ~e.stat
                THEN Return(s2, NULL)
                ELSE Return([s2 EXCEPT !.kstat[KERNDAT_FS_STAT_DEVPTS].st_dev
                                          = e.st_dev],
                            AddrOfSt(which))

kerndat_get_fs_stat(s, which, e) ==
    IF which >= KERNDAT_FS_STAT_MAX
      THEN Return(s, NULL)
    ELSE IF s.kstat[which].st_dev # 0
      THEN Return(s, AddrOfSt(which))
    ELSE LET s1 == Sys(s, "statfs") IN
         IF ~e.statfs
           THEN Return(s1, NULL)
         ELSE IF e.f_type # s1.kstat[which].magic
           THEN Return(s1, NULL)
         ELSE LET s2 == Sys(s1, "stat") IN
              IF ~e.stat
                THEN Return(s2, NULL)
                ELSE Return([s2 EXCEPT !.kstat[which].st_dev = e.st_dev],
                            AddrOfSt(which))

---------------------------------------------------------------------------
(* kerndat_get_dirty_track.  e.mmap, e.open, e.read: the call succeeds;    *)
(* e.pmap: the page-table entry the read stores, as the set of its bits.   *)

\* bit 63 of an entry: the page is present
Pmaps == { {}, {63}, {63, PME_SOFT_DIRTY} }

DirtyTrackEnv ==
    { [mmap |-> FALSE, open |-> FALSE, read |-> FALSE, pmap |-> {}],
      [mmap |-> TRUE,  open |-> FALSE, read |-> FALSE, pmap |-> {}],
      [mmap |-> TRUE,  open |-> TRUE,  read |-> FALSE, pmap |-> {}] }
    \cup { [mmap |-> TRUE, open |-> TRUE, read |-> TRUE, pmap |-> p] :
               p \in Pmaps }

\* faulty variant: the error path of open() returns without the munmap
kerndat_get_dirty_track_leak(s, e) ==
    IF ~e.mmap
      THEN Return(MmapFail(s), -1)
    ELSE LET s1 == Sys(MmapOk(s), "reset_dirty_track") IN
         IF ~e.open
           THEN Return(OpenFail(s1), -1)
         ELSE LET s2   == Sys(Sys(Sys(OpenOk(s1), "write"), "lseek"), "read")
                  pmap == IF e.read THEN e.pmap ELSE {}
                  s3   == Munmap(Close(s2))
              IN IF PME_SOFT_DIRTY \in pmap
                   THEN Return([s3 EXCEPT !.kdat.has_dirty_track = TRUE], 0)
                 ELSE IF opts.track_mem
                   THEN Return(s3, -1)
                   ELSE Return(s3, 0)

\* faulty variant: the page is touched after its pagemap entry was read
kerndat_get_dirty_track_latewrite(s, e) ==
    IF ~e.mmap
      THEN Return(MmapFail(s), -1)
    ELSE LET s1 == Sys(MmapOk(s), "reset_dirty_track") IN
         IF ~e.open
           THEN Return(Munmap(OpenFail(s1)), -1)
         ELSE LET s2   == Sys(Sys(Sys(OpenOk(s1), "lseek"), "read"), "write")
                  pmap == IF e.read THEN e.pmap ELSE {}
                  s3   == Munmap(Close(s2))
              IN IF PME_SOFT_DIRTY \in pmap
                   THEN Return([s3 EXCEPT !.kdat.has_dirty_track = TRUE], 0)
                 ELSE IF opts.track_mem
                   THEN Return(s3, -1)
                   ELSE Return(s3, 0)

\* faulty variant: pmap is not initialised, and after a failed read it
\* holds a value with the soft-dirty bit set
kerndat_get_dirty_track_uninit(s, e) ==
    IF ~e.mmap
      THEN Return(MmapFail(s), -1)
    ELSE LET s1 == Sys(MmapOk(s), "reset_dirty_track") IN
         IF ~e.open
           THEN Return(Munmap(OpenFail(s1)), -1)
         ELSE LET s2   == Sys(Sys(Sys(OpenOk(s1), "write"), "lseek"), "read")
                  pmap == IF e.read THEN e.pmap ELSE {PME_SOFT_DIRTY}
                  s3   == Munmap(Close(s2))
              IN IF PME_SOFT_DIRTY \in pmap
                   THEN Return([s3 EXCEPT !.kdat.has_dirty_track = TRUE], 0)
                 ELSE IF opts.track_mem
                   THEN Return(s3, -1)
                   ELSE Return(s3, 0)

kerndat_get_dirty_track(s, e) ==
    IF ~e.mmap
      THEN Return(MmapFail(s), -1)
    ELSE LET s1 == Sys(MmapOk(s), "reset_dirty_track") IN
         IF ~e.open
           THEN Return(Munmap(OpenFail(s1)), -1)
         ELSE LET s2   == Sys(Sys(Sys(OpenOk(s1), "write"), "lseek"), "read")
                  pmap == IF e.read THEN e.pmap ELSE {}
                  s3   == Munmap(Close(s2))
              IN IF PME_SOFT_DIRTY \in pmap
                   THEN Return([s3 EXCEPT !.kdat.has_dirty_track = TRUE], 0)
                 ELSE IF opts.track_mem
                   THEN Return(s3, -1)
                   ELSE Return(s3, 0)

---------------------------------------------------------------------------
(* tcp_read_sysctl_limits.  e.ret: what sysctl_op returns; e.vect: the two *)
(* three-element u32 vectors it stores (tcp_wmem, tcp_rmem).               *)

SysctlErrs == {-1, -2}

\* the maxima the kernel reports: 1 MiB, 6 MiB, 2^31
TcpMaxima == { U32(16, 0), U32(96, 0), U32(32768, 0) }

TcpVect(max) == << U32(0, 4096), U32(1, 21844), max >>
ZeroVect == << U32(0, 0), U32(0, 0), U32(0, 0) >>

TcpEnv ==
    { [ret |-> r, vect |-> <<ZeroVect, ZeroVect>>] : r \in SysctlErrs }
    \cup { [ret |-> 0, vect |-> <<TcpVect(w), TcpVect(r)>>] :
               w \in TcpMaxima, r \in TcpMaxima }

\* faulty variant: the reported maxima are stored without the min()
tcp_read_sysctl_limits_noclamp(s, e) ==
    LET s1 == Sys(s, "sysctl_op") IN
    IF e.ret # 0
      THEN Return(s1, 0)
      ELSE Return([s1 EXCEPT
                     !.kdat.tcp_max_wshare = IntOfU32(e.vect[1][3]),
                     !.kdat.tcp_max_rshare = IntOfU32(e.vect[2][3])], 0)

\* faulty variant: a failed sysctl read is returned to the caller
tcp_read_sysctl_limits_hardfail(s, e) ==
    LET s1 == Sys(s, "sysctl_op") IN
    IF e.ret # 0
      THEN Return(s1, e.ret)
      ELSE LET w == IntOfU32(e.vect[1][3])
               r == IntOfU32(e.vect[2][3])
           IN Return([s1 EXCEPT
                        !.kdat.tcp_max_wshare = IF @ < w THEN @ ELSE w,
                        !.kdat.tcp_max_rshare = IF @ < r THEN @ ELSE r], 0)

tcp_read_sysctl_limits(s, e) ==
    LET s1 == Sys(s, "sysctl_op") IN
    IF e.ret # 0
      THEN Return(s1, 0)
      ELSE LET w == IntOfU32(e.vect[1][3])
               r == IntOfU32(e.vect[2][3])
           IN Return([s1 EXCEPT
                        !.kdat.tcp_max_wshare = IF @ < w THEN @ ELSE w,
                        !.kdat.tcp_max_rshare = IF @ < r THEN @ ELSE r], 0)

---------------------------------------------------------------------------
(* init_zero_page_pfn.  e.mmap: the mmap succeeds; e.word: the first word  *)
(* of the fresh page; e.ret, e.pfn: what vaddr_to_pfn returns and stores.  *)

\* the page frame numbers the translator reports: none (0), or a frame
Pfns == {0, 1}

ZeroPageEnv ==
    { [mmap |-> FALSE, word |-> 0, ret |-> 0, pfn |-> 0],
      [mmap |-> TRUE,  word |-> 1, ret |-> 0, pfn |-> 0],
      [mmap |-> TRUE,  word |-> 0, ret |-> -1, pfn |-> 0] }
    \cup { [mmap |-> TRUE, word |-> 0, ret |-> 0, pfn |-> p] : p \in Pfns }

init_zero_page_pfn(s, e) ==
    IF ~e.mmap
      THEN Return(MmapFail(s), 0)
    ELSE LET s1 == MmapOk(s) IN
         IF e.word # 0
           THEN BUG(s1)
         ELSE LET s2 == Sys(s1, "vaddr_to_pfn")
                  s3 == IF e.ret = 0
                          THEN [s2 EXCEPT !.kdat.zero_page_pfn = e.pfn]
                          ELSE s2
                  s4 == Munmap(s3)
              IN IF s4.kdat.zero_page_pfn = 0
                   THEN Return(s4, -1)
                   ELSE Return(s4, e.ret)

---------------------------------------------------------------------------
(* get_last_cap.  e.ret: what sysctl_op returns; e.val: the value it       *)
(* stores in kdat.last_cap.                                                *)

LastCaps == {37}

LastCapEnv ==
    { [ret |-> r, val |-> 0] : r \in SysctlErrs }
    \cup { [ret |-> 0, val |-> c] : c \in LastCaps }

\* faulty variant: any failure of the sysctl read is reported as -1
get_last_cap_flat(s, e) ==
    LET s1 == Sys(s, "sysctl_op") IN
    IF e.ret = 0
      THEN Return([s1 EXCEPT !.kdat.last_cap = e.val], 0)
      ELSE Return(s1, -1)

get_last_cap(s, e) ==
    LET s1 == Sys(s, "sysctl_op") IN
    IF e.ret = 0
      THEN Return([s1 EXCEPT !.kdat.last_cap = e.val], e.ret)
      ELSE Return(s1, e.ret)

---------------------------------------------------------------------------
(* kerndat_has_memfd_create.  e.ret: what sys_memfd_create(NULL, 0)        *)
(* returns.  The function is declared bool.                                *)

\* -22 is -EINVAL; 3 is a descriptor
MemfdEnv == { [ret |-> r] : r \in {-ENOSYS, -EFAULT, -22, 3} }

\* faulty variant: the unexpected return code falls through to the final return 0
kerndat_has_memfd_create_fallthrough(s, e) ==
    LET s1 == Sys(s, "memfd_create") IN
    IF e.ret = -ENOSYS
      THEN Return([s1 EXCEPT !.kdat.has_memfd = FALSE], IntOfBool(0))
    ELSE IF e.ret = -EFAULT
      THEN Return([s1 EXCEPT !.kdat.has_memfd = TRUE], IntOfBool(0))
      ELSE Return(s1, IntOfBool(0))

kerndat_has_memfd_create(s, e) ==
    LET s1 == Sys(s, "memfd_create") IN
    IF e.ret = -ENOSYS
      THEN Return([s1 EXCEPT !.kdat.has_memfd = FALSE], IntOfBool(0))
    ELSE IF e.ret = -EFAULT
      THEN Return([s1 EXCEPT !.kdat.has_memfd = TRUE], IntOfBool(0))
      ELSE Return(s1, IntOfBool(-1))

---------------------------------------------------------------------------
(* The orchestrators: the probes in the order of the calls, and where      *)
(* control goes when the probe at position `at' has returned `ret'         *)
(* (0: the orchestrator returns ret).                                      *)

kerndat_init_seq ==
    << "kerndat_get_shmemdev", "kerndat_get_dirty_track",
       "init_zero_page_pfn", "get_last_cap" >>

\* faulty variant: the next probe runs whatever the last one returned
kerndat_init_next_noshort(at, ret) ==
    IF at < Len(kerndat_init_seq) THEN at + 1 ELSE 0

kerndat_init_next(at, ret) ==
    IF ret = 0 /\ at < Len(kerndat_init_seq) THEN at + 1 ELSE 0

kerndat_init_rst_seq ==
    << "tcp_read_sysctl_limits", "get_last_cap", "kerndat_has_memfd_create" >>

\* faulty variant: the next probe runs whatever the last one returned
kerndat_init_rst_next_noshort(at, ret) ==
    IF at < Len(kerndat_init_rst_seq) THEN at + 1 ELSE 0

kerndat_init_rst_next(at, ret) ==
    IF ret = 0 /\ at < Len(kerndat_init_rst_seq) THEN at + 1 ELSE 0

EnvOf(name) ==
    CASE name = "kerndat_get_shmemdev"     -> ShmemdevEnv
      [] name = "kerndat_get_dirty_track"  -> DirtyTrackEnv
      [] name = "init_zero_page_pfn"       -> ZeroPageEnv
      [] name = "get_last_cap"             -> LastCapEnv
      [] name = "tcp_read_sysctl_limits"   -> TcpEnv
      [] name = "kerndat_has_memfd_create" -> MemfdEnv

RunProbe(name, s, e) ==
    CASE name = "kerndat_get_shmemdev"     -> kerndat_get_shmemdev(s, e)
      [] name = "kerndat_get_dirty_track"  -> kerndat_get_dirty_track(s, e)
      [] name = "init_zero_page_pfn"       -> init_zero_page_pfn(s, e)
      [] name = "get_last_cap"             -> get_last_cap(s, e)
      [] name = "tcp_read_sysctl_limits"   -> tcp_read_sysctl_limits(s, e)
      [] name = "kerndat_has_memfd_create" -> kerndat_has_memfd_create(s, e)

---------------------------------------------------------------------------
(* The state machine. *)

Idle == [fn |-> "idle", at |-> 0]

NoCall == [op |-> "none", which |-> 0, trace |-> << >>, ret |-> 0]

Init ==
    /\ kdat = kdat_init_value
    /\ kstat = kstat_init_value
    /\ opts \in { [track_mem |-> b] : b \in BOOLEAN }
    /\ maps = 0
    /\ fds = 0
    /\ pc = Idle
    /\ call = NoCall
    /\ last = [name |-> "none", in |-> [ret |-> 0], ret |-> 0]
    /\ sys = << >>
    /\ aborted = FALSE

\* what the probe `name' leaves behind, t being its final state
Commit(name, e, t) ==
    /\ kdat' = t.kdat
    /\ kstat' = t.kstat
    /\ maps' = t.maps
    /\ fds' = t.fds
    /\ sys' = t.sys
    /\ aborted' = t.aborted
    /\ last' = [name |-> name, in |-> e, ret |-> t.ret]

\* the probe at position `at' of the orchestrator fn runs; nxt is where
\* control goes after it
OrchStep(fn, seq, at, e, t, nxt) ==
    /\ ~aborted
    /\ pc = IF at = 1 THEN Idle ELSE [fn |-> fn, at |-> at]
    /\ Commit(seq[at], e, t)
    /\ IF t.aborted
         THEN /\ pc' = [fn |-> fn, at |-> at]
              /\ call' = [op |-> fn, which |-> 0,
                          trace |-> IF at = 1 THEN << >> ELSE call.trace,
                          ret |-> 0]
         ELSE /\ pc' = IF nxt = 0 THEN Idle ELSE [fn |-> fn, at |-> nxt]
              /\ call' = [op |-> fn, which |-> 0,
                          trace |-> Append(IF at = 1 THEN << >> ELSE call.trace,
                                           [name |-> seq[at], ret |-> t.ret]),
                          ret |-> t.ret]
    /\ UNCHANGED opts

KerndatInitStep(at) ==
    \E e \in EnvOf(kerndat_init_seq[at]) :
        LET t == RunProbe(kerndat_init_seq[at], Enter, e) IN
        OrchStep("kerndat_init", kerndat_init_seq, at, e, t,
                 kerndat_init_next(at, t.ret))

KerndatInit ==
    \/ KerndatInitStep(1)
    \/ KerndatInitStep(2)
    \/ KerndatInitStep(3)
    \/ KerndatInitStep(4)

KerndatInitRstStep(at) ==
    \E e \in EnvOf(kerndat_init_rst_seq[at]) :
        LET t == RunProbe(kerndat_init_rst_seq[at], Enter, e) IN
        OrchStep("kerndat_init_rst", kerndat_init_rst_seq, at, e, t,
                 kerndat_init_rst_next(at, t.ret))

KerndatInitRst ==
    \/ KerndatInitRstStep(1)
    \/ KerndatInitRstStep(2)
    \/ KerndatInitRstStep(3)

\* a direct call of one of the probes that are not static
DirectCall(name) ==
    /\ ~aborted
    /\ pc = Idle
    /\ \E e \in EnvOf(name) :
         LET t == RunProbe(name, Enter, e) IN
         /\ Commit(name, e, t)
         /\ call' = [op |-> name, which |-> 0,
                     trace |-> << [name |-> name, ret |-> t.ret] >>,
                     ret |-> t.ret]
    /\ UNCHANGED <<opts, pc>>

KerndatGetDirtyTrack == DirectCall("kerndat_get_dirty_track")

GetLastCap == DirectCall("get_last_cap")

KerndatGetFsStat ==
    /\ ~aborted
    /\ pc = Idle
    /\ \E which \in 0 .. KERNDAT_FS_STAT_MAX :
         \E e \in FsStatEnv(which) :
           LET t == kerndat_get_fs_stat(Enter, which, e) IN
           /\ Commit("kerndat_get_fs_stat", e, t)
           /\ call' = [op |-> "kerndat_get_fs_stat", which |-> which,
                       trace |-> << [name |-> "kerndat_get_fs_stat",
                                     ret |-> t.ret] >>,
                       ret |-> t.ret]
    /\ UNCHANGED <<opts, pc>>

Next ==
    \/ KerndatInit
    \/ KerndatInitRst
    \/ KerndatGetDirtyTrack
    \/ GetLastCap
    \/ KerndatGetFsStat

Spec == Init /\ [][Next]_vars

---------------------------------------------------------------------------
(* Properties. *)

\* the entry point op has returned to its caller
Returned(op) == ~aborted /\ pc = Idle /\ call.op = op

\* the probe `name' ran last and has returned
Ran(name) == ~aborted /\ last.name = name

\* the value of the u32 v and the int x, whichever is smaller
MinIntU32(x, v) ==
    IF v[1] >= 32768 THEN x
    ELSE IF x < v[1] * 65536 + v[2] THEN x ELSE v[1] * 65536 + v[2]

\* the dirty-tracking probe got as far as testing the entry, and the
\* soft-dirty bit was not set in it
BitNotSet(e) ==
    /\ e.mmap
    /\ e.open
    /\ PME_SOFT_DIRTY \notin (IF e.read THEN e.pmap ELSE {})

(* C1: init_zero_page_pfn never returns 0 while kdat.zero_page_pfn is 0,   *)
(* and so kerndat_init never returns 0 while kdat.zero_page_pfn is 0.      *)
C1_ZeroPfnIsFailure ==
    /\ Ran("init_zero_page_pfn") /\ last.ret = 0 => kdat.zero_page_pfn # 0
    /\ Returned("kerndat_init") /\ call.ret = 0 => kdat.zero_page_pfn # 0

(* C2: the probes kerndat_init has run are a prefix of shared-memory       *)
(* device, dirty tracking, zero page, capability bound, each run once; a   *)
(* probe ran only if every probe before it returned 0; kerndat_init        *)
(* returns what the last probe it ran returned, and returns before the     *)
(* end of the sequence only with a failure value.                          *)
C2_InitOrderShortCircuit ==
    call.op = "kerndat_init" =>
        LET tr    == call.trace
            order == << "kerndat_get_shmemdev", "kerndat_get_dirty_track",
                        "init_zero_page_pfn", "get_last_cap" >>
        IN /\ Len(tr) <= 4
           /\ \A i \in 1 .. Len(tr) : tr[i].name = order[i]
           /\ \A i \in 1 .. Len(tr) - 1 : tr[i].ret = 0
           /\ Returned("kerndat_init") =>
                /\ Len(tr) >= 1
                /\ call.ret = tr[Len(tr)].ret
                /\ Len(tr) < 4 => call.ret # 0
                /\ call.ret # 0 => tr[Len(tr)].ret # 0

\* kerndat_init has returned after the shared-memory device probe failed:
\* no other probe ran
C2_Witness ==
    /\ Returned("kerndat_init")
    /\ Len(call.trace) = 1
    /\ call.trace[1].name = "kerndat_get_shmemdev"
    /\ call.trace[1].ret # 0
    /\ call.ret # 0

(* C3: the probes kerndat_init_rst has run are a prefix of TCP limits,     *)
(* capability bound, memfd support, the TCP read first; the memfd probe    *)
(* ran only if the capability-bound read returned 0, and a failure of      *)
(* that read is what kerndat_init_rst returns.                             *)
C3_RstOrderShortCircuit ==
    call.op = "kerndat_init_rst" =>
        LET tr == call.trace IN
        /\ Len(tr) >= 1 => tr[1].name = "tcp_read_sysctl_limits"
        /\ Len(tr) >= 2 => tr[2].name = "get_last_cap"
        /\ Len(tr) >= 3 => tr[3].name = "kerndat_has_memfd_create"
                           /\ tr[2].ret = 0
        /\ Len(tr) <= 3
        /\ Returned("kerndat_init_rst") =>
             /\ Len(tr) >= 2
             /\ tr[2].ret # 0 => Len(tr) = 2 /\ call.ret = tr[2].ret
             /\ call.ret = tr[Len(tr)].ret

\* kerndat_init_rst has returned the failure of the capability-bound read
C3_Witness ==
    /\ Returned("kerndat_init_rst")
    /\ Len(call.trace) = 2
    /\ call.trace[2].name = "get_last_cap"
    /\ call.trace[2].ret = -2
    /\ call.ret = -2

(* C4: when the memfd probe runs in kerndat_init_rst, a return of -EFAULT  *)
(* from sys_memfd_create sets has_memfd and the orchestrator returns 0;    *)
(* -ENOSYS clears has_memfd and the orchestrator returns 0; any other      *)
(* return makes the orchestrator return non-zero with has_memfd as it      *)
(* was.                                                                    *)
C4_MemfdOutcome ==
    [][ (last'.name = "kerndat_has_memfd_create" /\ call'.op = "kerndat_init_rst")
        => /\ Returned("kerndat_init_rst")'
           /\ last'.in.ret = -EFAULT => kdat'.has_memfd /\ call'.ret = 0
           /\ last'.in.ret = -ENOSYS => ~kdat'.has_memfd /\ call'.ret = 0
           /\ last'.in.ret \notin {-EFAULT, -ENOSYS}
                => call'.ret # 0 /\ kdat'.has_memfd = kdat.has_memfd ]_vars

\* sys_memfd_create returned a descriptor after an earlier run had set
\* has_memfd: a hard error, the flag still set
C4_Witness ==
    /\ Returned("kerndat_init_rst")
    /\ last.name = "kerndat_has_memfd_create"
    /\ last.in.ret = 3
    /\ call.ret # 0
    /\ kdat.has_memfd

(* C5: kdat.tcp_max_wshare never exceeds 2 MiB and kdat.tcp_max_rshare     *)
(* never exceeds 3 MiB, and no step increases either.                      *)
C5_TcpBoundsNeverRaised ==
    /\ [](kdat.tcp_max_wshare <= 2097152 /\ kdat.tcp_max_rshare <= 3145728)
    /\ [][ /\ kdat'.tcp_max_wshare <= kdat.tcp_max_wshare
           /\ kdat'.tcp_max_rshare <= kdat.tcp_max_rshare ]_vars

\* a read that reports 6 MiB for both, after an earlier read has lowered
\* both bounds to 1 MiB
C5_Witness ==
    /\ Ran("tcp_read_sysctl_limits")
    /\ last.in.ret = 0
    /\ last.in.vect[1][3] = U32(96, 0)
    /\ last.in.vect[2][3] = U32(96, 0)
    /\ kdat.tcp_max_wshare = 1048576
    /\ kdat.tcp_max_rshare = 1048576

(* C6: after a successful sysctl read each bound is the minimum of its     *)
(* previous value and the reported maximum, taken as the unsigned 32-bit   *)
(* number it is.                                                           *)
C6_ClampIsUnsignedMin ==
    [][ (last'.name = "tcp_read_sysctl_limits" /\ last'.in.ret = 0)
        => /\ kdat'.tcp_max_wshare
                = MinIntU32(kdat.tcp_max_wshare, last'.in.vect[1][3])
           /\ kdat'.tcp_max_rshare
                = MinIntU32(kdat.tcp_max_rshare, last'.in.vect[2][3]) ]_vars

(* C7: when the dirty-tracking probe finds the soft-dirty bit not set,     *)
(* with opts.track_mem it returns failure, and kerndat_init returns that   *)
(* failure with the zero-page resolver and the capability-bound read not   *)
(* run; without opts.track_mem it returns 0 with has_dirty_track false,    *)
(* and kerndat_init goes on to the zero-page resolver.                     *)
C7_UnsupportedDirtyTrack ==
    (Ran("kerndat_get_dirty_track") /\ BitNotSet(last.in)) =>
        IF opts.track_mem
          THEN /\ last.ret # 0
               /\ call.op = "kerndat_init"
                    => Returned("kerndat_init") /\ call.ret # 0
                       /\ Len(call.trace) = 2
          ELSE /\ last.ret = 0
               /\ ~kdat.has_dirty_track
               /\ call.op = "kerndat_init"
                    => pc = [fn |-> "kerndat_init", at |-> 3]

(* C8: once a lookup of a key has returned its record, the next lookup of  *)
(* that key makes no system call, returns the same pointer and leaves the  *)
(* record as it is, whatever device id the stat reported.                  *)
C8_PopulatedOnce ==
    [][ ( /\ last.name = "kerndat_get_fs_stat" /\ call.ret # NULL
          /\ last'.name = "kerndat_get_fs_stat" /\ call'.which = call.which )
        => /\ sys' = << >>
           /\ call'.ret = call.ret
           /\ kstat' = kstat ]_vars

(* C9: a lookup of a valid key that returns NULL leaves the table as it    *)
(* was, the entry of the key unpopulated (st_dev 0); the next lookup of    *)
(* that key probes again (it starts with statfs),                          *)
(* and when statfs reports the expected magic and stat succeeds it         *)
(* returns the entry's record, holding what this stat reported.            *)
C9_FailedLookupNotCached ==
    [][ /\ ( /\ last'.name = "kerndat_get_fs_stat"
             /\ call'.which < KERNDAT_FS_STAT_MAX
             /\ call'.ret = NULL )
          => /\ kstat' = kstat
             /\ kstat'[call'.which].st_dev = 0
             /\ sys' # << >>
        /\ ( /\ last.name = "kerndat_get_fs_stat"
             /\ call.which < KERNDAT_FS_STAT_MAX
             /\ call.ret = NULL
             /\ last'.name = "kerndat_get_fs_stat"
             /\ call'.which = call.which )
          => /\ sys' # << >>
             /\ sys'[1] = "statfs"
             /\ ( /\ last'.in.statfs
                  /\ last'.in.f_type = kstat[call.which].magic
                  /\ last'.in.stat )
                => /\ call'.ret = AddrOfSt(call.which)
                   /\ sys' = << "statfs", "stat" >>
                   /\ kstat'[call.which].st_dev = last'.in.st_dev ]_vars

\* a lookup of /dev/pts that failed in stat, the mount being there
C9_Witness ==
    /\ Ran("kerndat_get_fs_stat")
    /\ call.which = KERNDAT_FS_STAT_DEVPTS
    /\ call.ret = NULL
    /\ last.in.statfs
    /\ last.in.f_type = DEVPTS_SUPER_MAGIC
    /\ ~last.in.stat
    /\ sys = << "statfs", "stat" >>
    /\ kstat[KERNDAT_FS_STAT_DEVPTS].st_dev = 0

(* C10: when a probe has returned, no test mapping is mapped and no        *)
(* transient descriptor is open.                                           *)
C10_NoLeak ==
    ~aborted => maps = 0 /\ fds = 0

\* the dirty-tracking probe has returned on the error path of open()
C10_Witness ==
    /\ Ran("kerndat_get_dirty_track")
    /\ last.in.mmap
    /\ ~last.in.open
    /\ last.ret = -1
    /\ sys = << "mmap", "reset_dirty_track", "open", "munmap" >>
    /\ maps = 0

(* C11: tcp_read_sysctl_limits always returns 0.  When the sysctl read     *)
(* fails both bounds stay as they were, and in kerndat_init_rst control    *)
(* goes on to the capability-bound read; a bound below 128 after the       *)
(* clamp does not make it fail either.                                     *)
C11_TcpReadIsSoft ==
    [][ last'.name = "tcp_read_sysctl_limits"
        => /\ last'.ret = 0
           /\ call'.op = "kerndat_init_rst"
           /\ pc' = [fn |-> "kerndat_init_rst", at |-> 2]
           /\ kerndat_init_rst_seq[2] = "get_last_cap"
           /\ last'.in.ret # 0
                => /\ kdat'.tcp_max_wshare = kdat.tcp_max_wshare
                   /\ kdat'.tcp_max_rshare = kdat.tcp_max_rshare ]_vars

\* the sysctl read has failed after an earlier read had lowered a bound
\* below 128: the bounds are kept and the capability-bound read is next
C11_Witness ==
    /\ Ran("tcp_read_sysctl_limits")
    /\ last.in.ret = -2
    /\ last.ret = 0
    /\ kdat.tcp_max_wshare < 128
    /\ kdat.tcp_max_rshare = 1048576
    /\ pc = [fn |-> "kerndat_init_rst", at |-> 2]

(* C12: a lookup with a key >= KERNDAT_FS_STAT_MAX returns NULL, makes no  *)
(* system call and leaves the table as it was.                             *)
C12_OutOfRangeKey ==
    [][ ( /\ last'.name = "kerndat_get_fs_stat"
          /\ call'.which >= KERNDAT_FS_STAT_MAX )
        => /\ call'.ret = NULL
           /\ sys' = << >>
           /\ kstat' = kstat ]_vars

\* a lookup with the key KERNDAT_FS_STAT_MAX has returned NULL, an entry
\* of the table being populated
C12_Witness ==
    /\ Ran("kerndat_get_fs_stat")
    /\ call.which = KERNDAT_FS_STAT_MAX
    /\ call.ret = NULL
    /\ sys = << >>
    /\ kstat[KERNDAT_FS_STAT_DEVTMPFS].st_dev # 0

(* C13: after every return of kerndat_get_dirty_track in which the page-   *)
(* table entry was read, kdat.has_dirty_track tells whether the soft-dirty *)
(* bit was set in that call, an earlier run having recorded true or not.   *)
C13_FlagIsThisCallsBit ==
    ( /\ Ran("kerndat_get_dirty_track")
      /\ last.in.mmap /\ last.in.open /\ last.in.read )
    => ( kdat.has_dirty_track <=> PME_SOFT_DIRTY \in last.in.pmap )

(* C14: kerndat_get_shmemdev writes kdat.shmem_dev on its success path     *)
(* only: when mmap or stat fails it returns failure and shmem_dev is       *)
(* unchanged, and on success shmem_dev is the device id stat reported.     *)
C14_ShmemDevOnSuccessOnly ==
    [][ last'.name = "kerndat_get_shmemdev"
        => IF last'.in.mmap /\ last'.in.stat
             THEN /\ last'.ret = 0
                  /\ kdat'.shmem_dev = last'.in.st_dev
             ELSE /\ last'.ret < 0
                  /\ kdat'.shmem_dev = kdat.shmem_dev ]_vars

\* stat has failed in a run that followed a successful one: the device id
\* of the earlier run is still recorded
C14_Witness ==
    /\ Ran("kerndat_get_shmemdev")
    /\ last.in.mmap /\ ~last.in.stat
    /\ last.ret = -1
    /\ kdat.shmem_dev # 0

(* C15: get_last_cap returns the value the sysctl read returned.  When     *)
(* the read fails as the capability-bound step of kerndat_init or of       *)
(* kerndat_init_rst, the orchestrator returns that same value and          *)
(* get_last_cap is the last probe it ran.                                  *)
C15_LastCapPassedThrough ==
    Ran("get_last_cap")
    => /\ last.ret = last.in.ret
       /\ ( last.in.ret # 0 /\ call.op \in {"kerndat_init", "kerndat_init_rst"} )
            => /\ Returned(call.op)
               /\ call.ret = last.in.ret
               /\ call.trace[Len(call.trace)].name = "get_last_cap"
               /\ Len(call.trace) =
                    IF call.op = "kerndat_init" THEN 4 ELSE 2

\* kerndat_init has returned the -2 of a failed capability-bound read
C15_Witness ==
    /\ Returned("kerndat_init")
    /\ last.name = "get_last_cap"
    /\ last.in.ret = -2
    /\ call.ret = -2
    /\ Len(call.trace) = 4

(* C16: in one run of kerndat_get_dirty_track the pagemap entry is read    *)
(* only after the soft-dirty reset and, after that, the one-byte write to  *)
(* the page.                                                               *)
C16_ResetWriteRead ==
    Ran("kerndat_get_dirty_track")
    => \A i \in 1 .. Len(sys) :
         sys[i] = "read"
         => \E j, k \in 1 .. Len(sys) :
              /\ j < k /\ k < i
              /\ sys[j] = "reset_dirty_track"
              /\ sys[k] = "write"

\* a run has got as far as reading the entry
C16_Witness ==
    /\ Ran("kerndat_get_dirty_track")
    /\ last.in.read
    /\ \E i \in 1 .. Len(sys) : sys[i] = "read"
    /\ \E i \in 1 .. Len(sys) : sys[i] = "reset_dirty_track"

(* C17: the helpers returning 0 or a negative value, every failure value   *)
(* kerndat_init or kerndat_init_rst returns is negative; in particular,    *)
(* when the memfd probe meets an unexpected return code, kerndat_init_rst  *)
(* returns -1.                                                             *)
C17_FailuresAreNegative ==
    /\ ( Returned("kerndat_init") \/ Returned("kerndat_init_rst") )
         => call.ret <= 0
    /\ ( /\ Returned("kerndat_init_rst")
         /\ last.name = "kerndat_has_memfd_create"
         /\ last.in.ret \notin {-ENOSYS, -EFAULT} )
         => call.ret = -1

(* C18: when kerndat_init returns success, the four capture probes ran     *)
(* exactly once each, in order, and the cache can be trusted:              *)
(* zero_page_pfn is not 0, shmem_dev is the device id this run obtained,   *)
(* and has_dirty_track is true if opts.track_mem is set.                   *)
C18_InitSuccessMeansCaptured ==
    /\ []( ( Returned("kerndat_init") /\ call.ret = 0 )
           => /\ [i \in 1 .. Len(call.trace) |-> call.trace[i].name]
                    = kerndat_init_seq
              /\ kdat.zero_page_pfn # 0
              /\ opts.track_mem => kdat.has_dirty_track )
    /\ [][ call'.op = "kerndat_init"
           => IF last'.name = "kerndat_get_shmemdev"
                THEN last'.ret = 0 => kdat'.shmem_dev = last'.in.st_dev
                ELSE kdat'.shmem_dev = kdat.shmem_dev ]_vars

(* C19: kerndat_init_rst never modifies shmem_dev, has_dirty_track or      *)
(* zero_page_pfn; kerndat_init never modifies tcp_max_wshare,              *)
(* tcp_max_rshare or has_memfd; neither modifies the mount descriptor      *)
(* table; a kerndat_get_fs_stat lookup of one key modifies no other key's  *)
(* entry and no kdat field.                                                *)
C19_PhaseFrames ==
    [][ /\ call'.op = "kerndat_init_rst"
           => /\ kdat'.shmem_dev = kdat.shmem_dev
              /\ kdat'.has_dirty_track = kdat.has_dirty_track
              /\ kdat'.zero_page_pfn = kdat.zero_page_pfn
              /\ kstat' = kstat
        /\ call'.op = "kerndat_init"
           => /\ kdat'.tcp_max_wshare = kdat.tcp_max_wshare
              /\ kdat'.tcp_max_rshare = kdat.tcp_max_rshare
              /\ kdat'.has_memfd = kdat.has_memfd
              /\ kstat' = kstat
        /\ call'.op = "kerndat_get_fs_stat"
           => /\ kdat' = kdat
              /\ \A k \in DOMAIN kstat :
                   k # call'.which => kstat'[k] = kstat[k] ]_vars

\* a lookup of the devtmpfs key has stored its record while the devpts
\* entry is still unpopulated and both phases have left their fields
C19_Witness ==
    /\ Ran("kerndat_get_fs_stat")
    /\ call.which = KERNDAT_FS_STAT_DEVTMPFS
    /\ call.ret = AddrOfSt(KERNDAT_FS_STAT_DEVTMPFS)
    /\ kstat[KERNDAT_FS_STAT_DEVTMPFS].st_dev # 0
    /\ kstat[KERNDAT_FS_STAT_DEVPTS].st_dev = 0
    /\ kdat.has_memfd
    /\ kdat.zero_page_pfn # 0

(* C20: in kerndat_get_dirty_track a failed read of the entry is not       *)
(* reported as support: that call does not change has_dirty_track and      *)
(* returns what it returns for an unset bit (-1 if opts.track_mem, else    *)
(* 0); a failed mmap or a failed open of the pagemap file returns failure  *)
(* and does not change has_dirty_track.                                    *)
C20_FailedReadIsNotSupport ==
    [][ last'.name = "kerndat_get_dirty_track"
        => /\ ( ~last'.in.mmap \/ ~last'.in.open )
                => /\ last'.ret < 0
                   /\ kdat'.has_dirty_track = kdat.has_dirty_track
           /\ ( last'.in.mmap /\ last'.in.open /\ ~last'.in.read )
                => /\ kdat'.has_dirty_track = kdat.has_dirty_track
                   /\ last'.ret = IF opts.track_mem THEN -1 ELSE 0
                   /\ \A e \in DirtyTrackEnv :
                        ( e.mmap /\ e.open /\ e.read /\ BitNotSet(e) )
                        => kerndat_get_dirty_track(Enter, e).ret = last'.ret
      ]_vars

\* the read of the entry has failed in a first run with opts.track_mem
\* unset: success is returned and has_dirty_track is still false
C20_Witness ==
    /\ Ran("kerndat_get_dirty_track")
    /\ last.in.mmap /\ last.in.open /\ ~last.in.read
    /\ ~opts.track_mem
    /\ last.ret = 0
    /\ ~kdat.has_dirty_track

=============================================================================
